---- MODULE Spec2Model ----
(***************************************************************************)
(* delly: scan a directory tree for files with requested extensions, list  *)
(* them, ask for confirmation, delete them and report the bytes saved per  *)
(* directory.  The repository holds two variants of main.go:               *)
(*   "seq"  - src/main.go lines 1-261   (sequential, re-walks the tree)    *)
(*   "conc" - src/main.go lines 263-542 (goroutines, Metadata)             *)
(* Strings are sequences of one-character strings, so that filepath.Dir,   *)
(* filepath.Ext, strings.ToLower, strings.TrimSpace ... are computed.      *)
(***************************************************************************)
EXTENDS Integers, Sequences, FiniteSets, TLC

\* ------------------------------------------------------------- bounds
\* largest size (bytes) of a regular file of the tree
MaxSize == 1
\* info.Size() of a directory entry, as lstat reports it
DirInfoSize == 1

\* ------------------------------------------------------------ strings
\* strings.ToLower on one character (the alphabet of the model)
LowerChar(c) ==
    CASE c = "Z" -> "z"
      [] c = "Y" -> "y"
      [] c = "E" -> "e"
      [] c = "S" -> "s"
      [] c = "N" -> "n"
      [] c = "O" -> "o"
      [] OTHER -> c

\* strings.ToLower
ToLower(s) == [i \in 1..Len(s) |-> LowerChar(s[i])]

\* index of the last occurrence of character c in s, 0 when there is none
LastIndex(s, c) ==
    IF \E i \in 1..Len(s) : s[i] = c
    THEN CHOOSE i \in 1..Len(s) : s[i] = c /\ \A j \in (i+1)..Len(s) : s[j] # c
    ELSE 0

\* filepath.Dir: the path up to its last separator; "." when it has none
Dir(path) ==
    LET i == LastIndex(path, "/")
    IN  IF i = 0 THEN <<".">>
        ELSE IF i = 1 THEN <<"/">>
        ELSE SubSeq(path, 1, i - 1)

\* info.Name(): the last element of the path
Name(path) == SubSeq(path, LastIndex(path, "/") + 1, Len(path))

\* filepath.Ext: the suffix starting at the final dot of the last element
Ext(path) ==
    LET n == Name(path)
        i == LastIndex(n, ".")
    IN  IF i = 0 THEN <<>> ELSE SubSeq(n, i, Len(n))

\* strings.TrimLeft(s, "."): every leading dot removed
RECURSIVE TrimLeftDots(_)
TrimLeftDots(s) ==
    IF Len(s) > 0 /\ s[1] = "." THEN TrimLeftDots(Tail(s)) ELSE s

\* strings.TrimPrefix(s, "."): one leading dot removed
TrimPrefixDot(s) ==
    IF Len(s) > 0 /\ s[1] = "." THEN Tail(s) ELSE s

IsSpace(c) == c \in {" ", "\n"}

\* strings.TrimSpace
RECURSIVE TrimSpace(_)
TrimSpace(s) ==
    IF Len(s) > 0 /\ IsSpace(s[1]) THEN TrimSpace(Tail(s))
    ELSE IF Len(s) > 0 /\ IsSpace(s[Len(s)]) THEN TrimSpace(SubSeq(s, 1, Len(s) - 1))
    ELSE s

\* ------------------------------------------------- extension matching
\* matchExt of the sequential variant: case-sensitive comparison
RECURSIVE matchExtSeq(_, _)
matchExtSeq(file, ext) ==
    IF ext = <<>> THEN FALSE
    ELSE IF TrimLeftDots(Ext(file)) = Head(ext) THEN TRUE
    ELSE matchExtSeq(file, Tail(ext))

\* matchExt of the concurrent variant: lowers the file's side only
RECURSIVE matchExtConc(_, _)
matchExtConc(ext, exts) ==
    IF exts = <<>> THEN FALSE
    ELSE IF ToLower(ext) = Head(exts) THEN TRUE
    ELSE matchExtConc(ext, Tail(exts))

\* WalkDirs line 362-363: the extension handed to matchExt
MatchesConc(path, exts) ==
    matchExtConc(ToLower(TrimPrefixDot(Ext(Name(path)))), exts)

\* collectFileSizes line 218 / deleteFilesByExtension line 167
MatchesSeq(path, exts) == matchExtSeq(Name(path), exts)

\* ------------------------------------------------------------ the tree
Root == <<"r">>
DS   == <<"r", "/", "s">>
FA   == <<"r", "/", "a", ".", "z">>
FB   == <<"r", "/", "b", ".", "Z">>
FM   == <<"r", "/", "m">>
FC   == <<"r", "/", "s", "/", "c", ".", "z">>

TreeDirs  == {Root, DS}
CandFiles == {FA, FB, FM, FC}

\* filepath.Walk visits a directory before its entries, entries in lexical order
WalkOrder == <<Root, FA, FB, FM, DS, FC>>

\* the requested extension lists (-e z ; -e Z ; -e t,z)
ExtChoices == { << <<"z">> >>, << <<"Z">> >>, << <<"t">>, <<"z">> >> }

\* Go's map read: the zero value for an absent key
MapGet(m, k) == IF k \in DOMAIN m THEN m[k] ELSE 0

MapPut(m, k, v) == [x \in DOMAIN m \cup {k} |-> IF x = k THEN v ELSE m[x]]

MapDel(m, k) == [x \in DOMAIN m \ {k} |-> m[x]]

EmptyMap == [x \in {} |-> 0]

RECURSIVE SumOver(_, _)
SumOver(S, f) ==
    IF S = {} THEN 0
    ELSE LET x == CHOOSE y \in S : TRUE IN f[x] + SumOver(S \ {x}, f)


\* -------------------------------------------------------------- state
VARIABLES
    variant,      \* "seq" or "conc": which main.go runs
    exts,         \* the requested extensions (parseExts / c.StringSlice)
    fsFiles,      \* the file system: regular file path -> size
    pc,           \* position of main
    exitCode,     \* exit status once the process has ended, -1 before
    fmap,         \* seq: fileMap returned by collectFileSizes
    dmap,         \* seq: dirMap returned by collectDirSizes
    walk,         \* seq: entries deleteFilesByExtension's walk has yet to visit
    meta,         \* conc: Metadata {Dirs, Files, Total}
    gpc,          \* conc: position of the goroutine of each path
    gtmp,         \* conc: the value a goroutine has read and not yet written
    mu,           \* conc: owner of the mutex, NoOwner when free
    totalDeleted, \* conc: the accumulator of deleteFiles
    stdinClosed,  \* the input stream has reached its end
    out,          \* what has been printed
    shown,        \* paths of the rows of the file listing
    rows,         \* rows of the directory summary
    said,         \* what the last line typed at the prompt means
    readErr,      \* a read at the prompt has returned an error
    attempted,    \* paths os.Remove has been called on
    removed,      \* paths os.Remove has removed -> their size
    logged,       \* paths whose failed removal has been logged
    created,      \* files another process has created while the prompt waited
    matched       \* paths the scan has matched

vars == <<variant, exts, fsFiles, pc, exitCode, fmap, dmap, walk, meta, gpc, gtmp,
          mu, totalDeleted, stdinClosed, out, shown, rows, said, readErr,
          attempted, removed, logged, created, matched>>

NoOwner == <<>>

\* files another process may create while the prompt waits
MaxCreate == 1

IsDir(p) == p \in TreeDirs

\* the entries a walk of the tree visits, in order
WalkSeq(files) == SelectSeq(WalkOrder, LAMBDA p : IsDir(p) \/ p \in DOMAIN files)

\* info.Size()
InfoSize(p, files) == IF IsDir(p) THEN DirInfoSize ELSE files[p]

\* ------------------------------------------------------------ scanning
\* collectFileSizes: the walk callback folded over the entries
RECURSIVE collectFileSizes(_, _, _, _)
collectFileSizes(w, files, e, acc) ==
    IF w = <<>> THEN acc
    ELSE LET path == Head(w)
             nxt  == IF ~IsDir(path) /\ MatchesSeq(path, e)
                     THEN [fMeta |-> MapPut(acc.fMeta, path, files[path]),
                           total |-> acc.total + files[path]]
                     ELSE acc
         IN  collectFileSizes(Tail(w), files, e, nxt)

\* collectDirSizes: a zero record per directory, file sizes added to the parent
RECURSIVE collectDirSizes(_, _, _)
collectDirSizes(w, files, dirSz) ==
    IF w = <<>> THEN dirSz
    ELSE LET path == Head(w)
             dir  == Dir(path)
             nxt  == IF IsDir(path)
                     THEN MapPut(dirSz, path, [size |-> 0, bytesDeleted |-> 0])
                     ELSE IF dir \in DOMAIN dirSz
                     THEN MapPut(dirSz, dir,
                                 [dirSz[dir] EXCEPT !.size = @ + files[path]])
                     ELSE dirSz
         IN  collectDirSizes(Tail(w), files, nxt)

ZeroDirMeta == [Size |-> 0, Deleted |-> 0]

\* WalkDirs: the walk callback folded over the entries
RECURSIVE WalkDirs(_, _, _, _)
WalkDirs(w, files, e, m) ==
    IF w = <<>> THEN m
    ELSE LET path == Head(w)
             dir  == Dir(path)
             sz   == InfoSize(path, files)
             hit  == ~IsDir(path) /\ MatchesConc(path, e)
             dm   == IF dir \in DOMAIN m.Dirs THEN m.Dirs[dir] ELSE ZeroDirMeta
             nxt  == [Dirs  |-> MapPut(m.Dirs, dir, [dm EXCEPT !.Size = @ + sz]),
                      Files |-> IF hit THEN MapPut(m.Files, path, sz) ELSE m.Files,
                      Total |-> IF hit THEN m.Total + sz ELSE m.Total]
         IN  WalkDirs(Tail(w), files, e, nxt)

EmptyMeta == [Dirs |-> EmptyMap, Files |-> EmptyMap, Total |-> 0]

NoOut == [listing |-> FALSE, prompted |-> FALSE, nothing |-> FALSE,
          exiting |-> FALSE, summary |-> FALSE]

Init ==
    /\ variant \in {"seq", "conc"}
    /\ exts \in ExtChoices
    /\ \E S \in SUBSET CandFiles : fsFiles \in [S -> 0..MaxSize]
    /\ pc = "start"
    /\ exitCode = -1
    /\ fmap = EmptyMap
    /\ dmap = EmptyMap
    /\ walk = <<>>
    /\ meta = EmptyMeta
    /\ gpc = EmptyMap
    /\ gtmp = EmptyMap
    /\ mu = NoOwner
    /\ totalDeleted = 0
    /\ stdinClosed = FALSE
    /\ out = NoOut
    /\ shown = {}
    /\ rows = {}
    /\ said = "none"
    /\ readErr = FALSE
    /\ attempted = {}
    /\ removed = EmptyMap
    /\ logged = {}
    /\ created = {}
    /\ matched = {}


\* ------------------------------------------------------------ main, up to the prompt
Exit(code) == pc' = "exit" /\ exitCode' = code

\* filepath.Walk hands the callback a nil info when the root cannot be read;
\* info.IsDir() then panics (lines 218, 361)
RootUnreadable ==
    /\ pc = "start"
    /\ pc' = "panic"
    /\ exitCode' = 2
    /\ UNCHANGED <<variant, exts, fsFiles, fmap, dmap, walk, meta, gpc, gtmp, mu,
                   totalDeleted, stdinClosed, out, shown, rows, said, readErr,
                   attempted, removed, logged, created, matched>>

\* seq: dryrun (lines 108-123): collectFileSizes, then the listing unless empty
dryrun ==
    /\ pc = "start"
    /\ variant = "seq"
    /\ LET r == collectFileSizes(WalkSeq(fsFiles), fsFiles, exts,
                                 [fMeta |-> EmptyMap, total |-> 0])
       IN  /\ fmap' = r.fMeta
           /\ matched' = DOMAIN r.fMeta
           /\ IF DOMAIN r.fMeta = {}
              THEN UNCHANGED <<out, shown>>
              ELSE /\ out' = [out EXCEPT !.listing = TRUE]
                   /\ shown' = DOMAIN r.fMeta
    /\ pc' = "scanned"
    /\ UNCHANGED <<variant, exts, fsFiles, exitCode, dmap, walk, meta, gpc, gtmp, mu,
                   totalDeleted, stdinClosed, rows, said, readErr,
                   attempted, removed, logged, created>>

\* conc: WalkDirs and the receive of its result (lines 478-479)
ConcScan ==
    /\ pc = "start"
    /\ variant = "conc"
    /\ meta' = WalkDirs(WalkSeq(fsFiles), fsFiles, exts, EmptyMeta)
    /\ matched' = DOMAIN meta'.Files
    /\ pc' = "scanned"
    /\ UNCHANGED <<variant, exts, fsFiles, exitCode, fmap, dmap, walk, gpc, gtmp, mu,
                   totalDeleted, stdinClosed, out, shown, rows, said, readErr,
                   attempted, removed, logged, created>>

\* mutant of SeqNothingToDelete: the test of line 55 written as elems < 0
SeqNothingToDeleteNever(f) == Cardinality(DOMAIN f) < 0

\* seq: elems == 0 (line 55)
SeqNothingToDelete(f) == Cardinality(DOMAIN f) = 0

\* conc: meta.Total == 0 (line 481)
ConcNothingToDelete(m) == m.Total = 0

\* seq: lines 55-60
SeqCheck ==
    /\ pc = "scanned"
    /\ variant = "seq"
    /\ IF SeqNothingToDelete(fmap)
       THEN /\ out' = [out EXCEPT !.nothing = TRUE]
            /\ Exit(0)
       ELSE /\ pc' = "ask"
            /\ UNCHANGED <<out, exitCode>>
    /\ UNCHANGED <<variant, exts, fsFiles, fmap, dmap, walk, meta, gpc, gtmp, mu,
                   totalDeleted, stdinClosed, shown, rows, said, readErr,
                   attempted, removed, logged, created, matched>>

\* conc: lines 481-489
ConcCheck ==
    /\ pc = "scanned"
    /\ variant = "conc"
    /\ IF ConcNothingToDelete(meta)
       THEN /\ out' = [out EXCEPT !.nothing = TRUE]
            /\ Exit(0)
            /\ UNCHANGED shown
       ELSE /\ out' = [out EXCEPT !.listing = TRUE]
            /\ shown' = DOMAIN meta.Files
            /\ pc' = "ask"
            /\ UNCHANGED exitCode
    /\ UNCHANGED <<variant, exts, fsFiles, fmap, dmap, walk, meta, gpc, gtmp, mu,
                   totalDeleted, stdinClosed, rows, said, readErr,
                   attempted, removed, logged, created, matched>>

\* ------------------------------------------------------------ the prompt
\* lines a read of the input can return; one that does not end in a newline is
\* what bufio's ReadString returns, with an error, at the end of the input
Lines == { <<"y", "\n">>, <<" ", "Y", "E", "S", "\n">>, <<"n", "\n">>,
           <<"N", "o", " ", "\n">>, <<"x", "\n">>, <<>>, <<"y">> }

\* ReadString('\n'): err != nil iff the data does not end in the delimiter
ReadError(line) == Len(line) = 0 \/ line[Len(line)] # "\n"

Yes == { <<"y">>, <<"y", "e", "s">> }
No  == { <<"n">>, <<"n", "o">> }

\* mutant of SeqAnswer: whatever is not n/no counts as yes
SeqAnswerDefaultYes(response) ==
    LET r == ToLower(TrimSpace(response))
    IN  IF r \in No THEN "no" ELSE "yes"

\* askForConfirmation lines 253-259: "yes", "no", or "again" for another round
SeqAnswer(response) ==
    LET r == ToLower(TrimSpace(response))
    IN  IF r \in Yes THEN "yes" ELSE IF r \in No THEN "no" ELSE "again"

\* askConfirm lines 522-530
ConcAnswer(text) ==
    LET t == ToLower(TrimSpace(text))
    IN  IF t \in Yes THEN "yes" ELSE IF t \in No THEN "no" ELSE "again"

\* what a typed line means to its reader: trimmed, letter case ignored
Meaning(line) ==
    LET t == TrimSpace(line)
    IN  IF \E y \in Yes : ToLower(t) = y THEN "yes"
        ELSE IF \E n \in No : ToLower(t) = n THEN "no"
        ELSE "other"

\* seq: log.Fatal on a read error (lines 249-251)
SeqFatalOnError(err) == err

\* conc: the error of ReadString is dropped (line 521)
ConcFatalOnError(err) == FALSE

\* one round of the prompt's loop, and main's branch on its result
AskRound(fatal, answer, line) ==
    /\ out' = [out EXCEPT !.prompted = TRUE,
                          !.exiting = (~fatal /\ answer = "no")]
    /\ IF fatal THEN pc' = "fatal" /\ exitCode' = 1
       ELSE IF answer = "yes" THEN pc' = "confirmed" /\ UNCHANGED exitCode
       ELSE IF answer = "no" THEN Exit(0)
       ELSE UNCHANGED <<pc, exitCode>>
    /\ said' = Meaning(line)
    /\ readErr' = (readErr \/ ReadError(line))
    /\ stdinClosed' = (stdinClosed \/ ReadError(line))

\* seq: askForConfirmation (lines 242-261) and lines 60-65
askForConfirmation ==
    /\ pc = "ask"
    /\ variant = "seq"
    /\ \E line \in Lines :
        /\ stdinClosed => line = <<>>
        /\ AskRound(SeqFatalOnError(ReadError(line)), SeqAnswer(line), line)
    /\ UNCHANGED <<variant, exts, fsFiles, fmap, dmap, walk, meta, gpc, gtmp, mu,
                   totalDeleted, shown, rows, attempted, removed, logged, created, matched>>

\* conc: askConfirm (lines 515-532) and lines 491-495
askConfirm ==
    /\ pc = "ask"
    /\ variant = "conc"
    /\ \E line \in Lines :
        /\ stdinClosed => line = <<>>
        /\ AskRound(ConcFatalOnError(ReadError(line)), ConcAnswer(line), line)
    /\ UNCHANGED <<variant, exts, fsFiles, fmap, dmap, walk, meta, gpc, gtmp, mu,
                   totalDeleted, shown, rows, attempted, removed, logged, created, matched>>

\* another process creates a file in the tree while the prompt waits
EnvCreate ==
    /\ pc = "ask"
    /\ Cardinality(created) < MaxCreate
    /\ \E p \in CandFiles \ DOMAIN fsFiles, sz \in 0..MaxSize :
        /\ fsFiles' = MapPut(fsFiles, p, sz)
        /\ created' = created \cup {p}
    /\ UNCHANGED <<variant, exts, pc, exitCode, fmap, dmap, walk, meta, gpc, gtmp, mu,
                   totalDeleted, stdinClosed, out, shown, rows, said, readErr,
                   attempted, removed, logged, matched>>


\* ------------------------------------------------------------ seq: deletion
\* deleteFiles line 126, and the start of deleteFilesByExtension's walk
SeqCollectDirs ==
    /\ pc = "confirmed"
    /\ variant = "seq"
    /\ dmap' = collectDirSizes(WalkSeq(fsFiles), fsFiles, EmptyMap)
    /\ walk' = WalkSeq(fsFiles)
    /\ pc' = "delwalk"
    /\ UNCHANGED <<variant, exts, fsFiles, exitCode, fmap, meta, gpc, gtmp, mu,
                   totalDeleted, stdinClosed, out, shown, rows, said, readErr,
                   attempted, removed, logged, created, matched>>

\* lines 176-177
SeqCredit(dm, dir, sz) ==
    MapPut(dm, dir, [dm[dir] EXCEPT !.bytesDeleted = @ + sz])

\* lines 173-175: the callback returns the error, which ends the walk
SeqAfterFailure(w) == <<>>

\* the walk callback of deleteFilesByExtension on the next entry (lines 161-182)
SeqWalkStep ==
    /\ pc = "delwalk"
    /\ walk # <<>>
    /\ LET path == Head(walk)
           dir  == Dir(path)
       IN  IF ~IsDir(path) /\ MatchesSeq(path, exts) /\ dir \in DOMAIN dmap
           THEN /\ attempted' = attempted \cup {path}
                /\ \E ok \in BOOLEAN :
                    IF ok
                    THEN /\ fsFiles' = MapDel(fsFiles, path)
                         /\ removed' = MapPut(removed, path, fsFiles[path])
                         /\ dmap' = SeqCredit(dmap, dir, fsFiles[path])
                         /\ walk' = Tail(walk)
                    ELSE /\ walk' = SeqAfterFailure(walk)
                         /\ UNCHANGED <<fsFiles, removed, dmap>>
           ELSE /\ walk' = Tail(walk)
                /\ UNCHANGED <<fsFiles, removed, dmap, attempted>>
    /\ UNCHANGED <<variant, exts, pc, exitCode, fmap, meta, gpc, gtmp, mu,
                   totalDeleted, stdinClosed, out, shown, rows, said, readErr,
                   logged, created, matched>>

\* dirMap.report (lines 84-106): a row per directory with bytesDeleted != 0
SeqRows(d) ==
    { [dir |-> k, old |-> d[k].size, new |-> d[k].size - d[k].bytesDeleted,
       saved |-> d[k].bytesDeleted] : k \in {x \in DOMAIN d : d[x].bytesDeleted # 0} }

\* deleteFiles lines 135-139, main line 71
SeqReport ==
    /\ pc = "delwalk"
    /\ walk = <<>>
    /\ rows' = SeqRows(dmap)
    /\ out' = [out EXCEPT !.summary = TRUE]
    /\ Exit(0)
    /\ UNCHANGED <<variant, exts, fsFiles, fmap, dmap, walk, meta, gpc, gtmp, mu,
                   totalDeleted, stdinClosed, shown, said, readErr,
                   attempted, removed, logged, created, matched>>

\* ------------------------------------------------------------ conc: deletion
\* deleteFiles lines 398-413: a goroutine per path of meta.Files
ConcSpawn ==
    /\ pc = "confirmed"
    /\ variant = "conc"
    /\ gpc' = [p \in DOMAIN meta.Files |-> "remove"]
    /\ gtmp' = [p \in DOMAIN meta.Files |-> 0]
    /\ pc' = "wait"
    /\ UNCHANGED <<variant, exts, fsFiles, exitCode, fmap, dmap, walk, meta, mu,
                   totalDeleted, stdinClosed, out, shown, rows, said, readErr,
                   attempted, removed, logged, created, matched>>

Running(p) == pc = "wait" /\ p \in DOMAIN gpc

\* lines 417-421
GRemove(p) ==
    /\ Running(p)
    /\ gpc[p] = "remove"
    /\ attempted' = attempted \cup {p}
    /\ \E ok \in BOOLEAN :
        IF ok /\ p \in DOMAIN fsFiles
        THEN /\ fsFiles' = MapDel(fsFiles, p)
             /\ removed' = MapPut(removed, p, fsFiles[p])
             /\ gpc' = [gpc EXCEPT ![p] = "lock"]
             /\ UNCHANGED logged
        ELSE /\ logged' = logged \cup {p}
             /\ gpc' = [gpc EXCEPT ![p] = "done"]
             /\ UNCHANGED <<fsFiles, removed>>
    /\ UNCHANGED <<variant, exts, pc, exitCode, fmap, dmap, walk, meta, gtmp, mu,
                   totalDeleted, stdinClosed, out, shown, rows, said, readErr, created, matched>>

\* mutant of LockFree: the goroutines do not wait for the mutex
LockNeverWaits(m) == TRUE

\* mu.Lock() blocks until the mutex is free (line 425)
LockFree(m) == m = NoOwner

GLock(p) ==
    /\ Running(p)
    /\ gpc[p] = "lock"
    /\ LockFree(mu)
    /\ mu' = p
    /\ gpc' = [gpc EXCEPT ![p] = "credit"]
    /\ UNCHANGED <<variant, exts, fsFiles, pc, exitCode, fmap, dmap, walk, meta, gtmp,
                   totalDeleted, stdinClosed, out, shown, rows, said, readErr,
                   attempted, removed, logged, created, matched>>

\* lines 426-428: the read of dm.Deleted and meta.Files[path]
GCreditRead(p) ==
    /\ Running(p)
    /\ gpc[p] = "credit"
    /\ LET dir == Dir(p)
       IN  IF dir \in DOMAIN meta.Dirs
           THEN /\ gtmp' = [gtmp EXCEPT ![p] = meta.Dirs[dir].Deleted + MapGet(meta.Files, p)]
                /\ gpc' = [gpc EXCEPT ![p] = "creditw"]
           ELSE /\ gpc' = [gpc EXCEPT ![p] = "delete"]
                /\ UNCHANGED gtmp
    /\ UNCHANGED <<variant, exts, fsFiles, pc, exitCode, fmap, dmap, walk, meta, mu,
                   totalDeleted, stdinClosed, out, shown, rows, said, readErr,
                   attempted, removed, logged, created, matched>>

\* lines 428-429: the write of dm.Deleted
GCreditWrite(p) ==
    /\ Running(p)
    /\ gpc[p] = "creditw"
    /\ meta' = [meta EXCEPT !.Dirs[Dir(p)].Deleted = gtmp[p]]
    /\ gpc' = [gpc EXCEPT ![p] = "delete"]
    /\ UNCHANGED <<variant, exts, fsFiles, pc, exitCode, fmap, dmap, walk, gtmp, mu,
                   totalDeleted, stdinClosed, out, shown, rows, said, readErr,
                   attempted, removed, logged, created, matched>>

\* mutant of DeleteEntry: the entry is still there when the ancestors are credited
DeleteEntryKept(files, path) == files

\* delete(meta.Files, path) (line 432)
DeleteEntry(files, path) == MapDel(files, path)

GDelete(p) ==
    /\ Running(p)
    /\ gpc[p] = "delete"
    /\ meta' = [meta EXCEPT !.Files = DeleteEntry(meta.Files, p)]
    /\ gpc' = [gpc EXCEPT ![p] = "ancestors"]
    /\ UNCHANGED <<variant, exts, fsFiles, pc, exitCode, fmap, dmap, walk, gtmp, mu,
                   totalDeleted, stdinClosed, out, shown, rows, said, readErr,
                   attempted, removed, logged, created, matched>>

\* lines 434-441: every directory from the parent up to "." or "/" is credited
\* meta.Files[path], read again after the entry was deleted
RECURSIVE CreditAncestors(_, _, _)
CreditAncestors(dirs, dir, amount) ==
    IF dir = <<".">> \/ dir = <<"/">> THEN dirs
    ELSE CreditAncestors(
            IF dir \in DOMAIN dirs
            THEN [dirs EXCEPT ![dir].Deleted = @ + amount]
            ELSE dirs,
            Dir(dir), amount)

\* lines 434-442: the loop, then mu.Unlock()
GAncestors(p) ==
    /\ Running(p)
    /\ gpc[p] = "ancestors"
    /\ meta' = [meta EXCEPT !.Dirs = CreditAncestors(meta.Dirs, Dir(p), MapGet(meta.Files, p))]
    /\ mu' = NoOwner
    /\ gpc' = [gpc EXCEPT ![p] = "acc"]
    /\ UNCHANGED <<variant, exts, fsFiles, pc, exitCode, fmap, dmap, walk, gtmp,
                   totalDeleted, stdinClosed, out, shown, rows, said, readErr,
                   attempted, removed, logged, created, matched>>

\* another goroutine is about to write the map meta.Files
MapWriter(p) == \E q \in DOMAIN gpc : q # p /\ gpc[q] = "delete"

\* line 444, the reads: meta.Files[path] and totalDeleted, without the mutex
GAccRead(p) ==
    /\ Running(p)
    /\ gpc[p] = "acc"
    /\ gtmp' = [gtmp EXCEPT ![p] = totalDeleted + MapGet(meta.Files, p)]
    /\ gpc' = [gpc EXCEPT ![p] = "accw"]
    /\ UNCHANGED <<variant, exts, fsFiles, pc, exitCode, fmap, dmap, walk, meta, mu,
                   totalDeleted, stdinClosed, out, shown, rows, said, readErr,
                   attempted, removed, logged, created, matched>>

\* line 444 while another goroutine writes the map: the runtime may end the
\* process with "concurrent map read and map write"
GAccCrash(p) ==
    /\ Running(p)
    /\ gpc[p] = "acc"
    /\ MapWriter(p)
    /\ pc' = "crashed"
    /\ exitCode' = 2
    /\ UNCHANGED <<variant, exts, fsFiles, fmap, dmap, walk, meta, gpc, gtmp, mu,
                   totalDeleted, stdinClosed, out, shown, rows, said, readErr,
                   attempted, removed, logged, created, matched>>

\* line 444, the write of totalDeleted; then wg.Done()
GAccWrite(p) ==
    /\ Running(p)
    /\ gpc[p] = "accw"
    /\ totalDeleted' = gtmp[p]
    /\ gpc' = [gpc EXCEPT ![p] = "done"]
    /\ UNCHANGED <<variant, exts, fsFiles, pc, exitCode, fmap, dmap, walk, meta, gtmp, mu,
                   stdinClosed, out, shown, rows, said, readErr,
                   attempted, removed, logged, created, matched>>

\* DirReporter.Report (lines 323-345): a row per directory with Deleted > 0
ConcRows(d) ==
    { [dir |-> k, old |-> d[k].Size, new |-> d[k].Size - d[k].Deleted,
       saved |-> d[k].Deleted] : k \in {x \in DOMAIN d : d[x].Deleted > 0} }

\* wg.Wait(), meta.Total -= totalDeleted (lines 448-452), main lines 498-505
ConcFinish ==
    /\ pc = "wait"
    /\ \A p \in DOMAIN gpc : gpc[p] = "done"
    /\ meta' = [meta EXCEPT !.Total = @ - totalDeleted]
    /\ rows' = ConcRows(meta.Dirs)
    /\ out' = [out EXCEPT !.summary = TRUE]
    /\ Exit(0)
    /\ UNCHANGED <<variant, exts, fsFiles, fmap, dmap, walk, gpc, gtmp, mu,
                   totalDeleted, stdinClosed, shown, said, readErr,
                   attempted, removed, logged, created, matched>>

\* ------------------------------------------------------------ specification
Next ==
    \/ RootUnreadable
    \/ dryrun
    \/ ConcScan
    \/ SeqCheck
    \/ ConcCheck
    \/ askForConfirmation
    \/ askConfirm
    \/ EnvCreate
    \/ SeqCollectDirs
    \/ SeqWalkStep
    \/ SeqReport
    \/ ConcSpawn
    \/ \E p \in CandFiles : GRemove(p)
    \/ \E p \in CandFiles : GLock(p)
    \/ \E p \in CandFiles : GCreditRead(p)
    \/ \E p \in CandFiles : GCreditWrite(p)
    \/ \E p \in CandFiles : GDelete(p)
    \/ \E p \in CandFiles : GAncestors(p)
    \/ \E p \in CandFiles : GAccRead(p)
    \/ \E p \in CandFiles : GAccCrash(p)
    \/ \E p \in CandFiles : GAccWrite(p)
    \/ ConcFinish

Spec == Init /\ [][Next]_vars


\* ------------------------------------------------------------ properties
\* the directory records of either variant: directory -> <<size, deleted>>
DirRecords ==
    IF variant = "seq"
    THEN [d \in DOMAIN dmap |-> [size |-> dmap[d].size, deleted |-> dmap[d].bytesDeleted]]
    ELSE [d \in DOMAIN meta.Dirs |-> [size |-> meta.Dirs[d].Size, deleted |-> meta.Dirs[d].Deleted]]

\* the deletion step has completed: the walk has ended, or every goroutine has
AllGoroutinesDone == pc = "wait" /\ \A p \in DOMAIN gpc : gpc[p] = "done"

DeletionDone ==
    \/ variant = "seq" /\ pc = "delwalk" /\ walk = <<>>
    \/ AllGoroutinesDone
    \/ out.summary

\* C1: no file is removed (or even attempted) unless the prompt, shown after the
\* file listing, was answered y/yes; after n/no nothing is removed, the directory
\* summary is not rendered and the process has exited with status 0.
C1_NoRemovalWithoutYes ==
    /\ out.prompted => out.listing
    /\ (attempted # {} \/ DOMAIN removed # {}) =>
            (said = "yes" /\ out.prompted /\ out.listing)
    /\ said = "no" =>
            /\ attempted = {}
            /\ DOMAIN removed = {}
            /\ ~out.summary
            /\ pc = "exit"
            /\ exitCode = 0

\* C1 witness: the user said yes and a listed file has been removed
C1_Witness == said = "yes" /\ out.listing /\ DOMAIN removed # {}

\* C2: when the scan matches no file the program shows no prompt, no listing and
\* no summary, removes nothing, and its only exit is status 0 after printing
\* "nothing to delete".
C2_NothingToDelete ==
    (pc \notin {"start", "panic"} /\ matched = {}) =>
        /\ ~out.prompted
        /\ ~out.listing
        /\ ~out.summary
        /\ attempted = {}
        /\ pc \in {"scanned", "exit"}
        /\ pc = "exit" => (exitCode = 0 /\ out.nothing)

\* C2 witness: a tree with files, none matched, and the program has exited
C2_Witness ==
    /\ pc = "exit"
    /\ matched = {}
    /\ DOMAIN fsFiles # {}
    /\ out.nothing

\* C3: once the directory summary is rendered every matched file has been
\* attempted, and every failed removal has been reported.
C3_BatchContinues ==
    out.summary =>
        /\ \A f \in matched : f \in attempted
        /\ \A f \in attempted \ DOMAIN removed : f \in logged

\* C4: after the deletion step each directory record's deleted bytes are exactly
\* the sum of the sizes of the files removed from that directory.
C4_DeletedBytesExact ==
    DeletionDone =>
        \A d \in DOMAIN DirRecords :
            DirRecords[d].deleted = SumOver({f \in DOMAIN removed : Dir(f) = d}, removed)

\* C4 witness: goroutines removed two files of one directory, a third removal failed
C4_Witness ==
    /\ variant = "conc"
    /\ AllGoroutinesDone
    /\ attempted \ DOMAIN removed # {}
    /\ \E f, g \in DOMAIN removed :
        f # g /\ Dir(f) = Dir(g) /\ removed[f] > 0 /\ removed[g] > 0

\* C5: in every state every directory record has deleted <= size, and no row of
\* the directory summary shows a negative new size.
C5_DeletedAtMostSize ==
    /\ \A d \in DOMAIN DirRecords : DirRecords[d].deleted <= DirRecords[d].size
    /\ \A r \in rows : r.new >= 0 /\ r.new = r.old - r.saved

\* C5 witness: the summary shows a directory all of whose bytes were deleted
C5_Witness == out.summary /\ \E r \in rows : r.saved > 0 /\ r.new = 0

\* C6: a read error at the prompt ends the process with a fatal, non-zero exit
\* and nothing is deleted.
C6_ReadErrorIsFatal ==
    readErr => (pc = "fatal" /\ exitCode # 0 /\ attempted = {})

\* a file matches when the text after the last dot of its name equals a
\* requested extension, letter case ignored on both sides
ClaimedMatch(f, e) ==
    LET n == Name(f)
        i == LastIndex(n, ".")
    IN  /\ i > 0
        /\ \E k \in 1..Len(e) : ToLower(SubSeq(n, i + 1, Len(n))) = ToLower(e[k])

\* C7: the scan matches exactly the files whose extension is a requested one,
\* ignoring letter case on both sides.
C7_CaseInsensitiveMatch ==
    pc = "scanned" =>
        \A f \in DOMAIN fsFiles : (f \in matched) <=> ClaimedMatch(f, exts)

\* the directory records have just been collected from the tree as it is
DirsJustScanned ==
    \/ variant = "conc" /\ pc = "scanned"
    \/ variant = "seq" /\ pc = "delwalk" /\ attempted = {}

\* C8: after the scan every directory of the tree has a record, whose size is
\* the sum of the sizes of the regular files directly in it.
C8_DirRecordPerDirectory ==
    DirsJustScanned =>
        \A d \in TreeDirs :
            /\ d \in DOMAIN DirRecords
            /\ DirRecords[d].size = SumOver({f \in DOMAIN fsFiles : Dir(f) = d}, fsFiles)

\* C9: every removed file was a row of the file listing.
C9_OnlyListedRemoved == DOMAIN removed \subseteq shown

\* C10: a goroutine touches meta.Files and totalDeleted only while it holds the
\* mutex, and once all are done meta.Total is the sum of what is left in meta.Files.
C10_MutexCoversSharedState ==
    /\ \A p \in DOMAIN gpc :
        (pc = "wait" /\ gpc[p] \in {"credit", "creditw", "delete", "ancestors", "acc", "accw"})
            => mu = p
    /\ (variant = "conc" /\ out.summary) =>
            meta.Total = SumOver(DOMAIN meta.Files, meta.Files)

====
